---- MODULE Spec2Model ----
(***************************************************************************)
(* V2V convoy simulation (head.py): vehicles broadcast STATUS and          *)
(* EMERGENCY_BRAKE messages over one shared queue.Queue, one daemon        *)
(* listener thread per vehicle decodes what it receives and reacts.        *)
(*                                                                         *)
(* Units.  accel is kept in 0.001 m/s^2 and speed in 0.0001 m/s, so that   *)
(* line 25, speed + accel * 0.1, is speed + accel in model units.          *)
(*                                                                         *)
(* Threads.  "main" runs the demo loop (lines 137-161); the listener       *)
(* thread of a vehicle carries the vehicle's name.  Every source line      *)
(* that reads or writes shared data (sensor fields, the queue) is one      *)
(* step, so two threads inside broadcast() of the same vehicle interleave  *)
(* the way CPython threads do.                                             *)
(***************************************************************************)
EXTENDS Integers, Sequences, FiniteSets, TLC

\* ---------------------------------------------------------------- bounds
\* the demo thread starts its next broadcast only while fewer signals than
\* this are pending or being reacted to (it sleeps 1 s per tick, a listener
\* wakes within 0.1 s)
MaxBacklog == 2
\* noise lets at most this many EMERGENCY_BRAKE signals decode faithfully
MaxReactions == 1
\* decode_message is handed every signal of at most this many samples
MaxSamples == 9

\* ------------------------------------------------------ program constants
Convoy == <<"CarA", "CarB", "CarC">>
Vehicles == {Convoy[n] : n \in 1..Len(Convoy)}
NumTicks == 6
BrakeTick == 2
InitSpeed == 250000
BrakeAccel == -8000
DriftMin == -500
DriftMax == 500

Threads == {"main"} \cup Vehicles

\* random.uniform(-0.5, 0.5): the generator is seeded when the module is
\* imported; a seed fixes the stream of draws, here a walk round DriftTape
DriftTape == <<DriftMin, 133, DriftMax, 0>>
Seeds == {0, 1}
Uniform(sd, n) == DriftTape[((sd + n) % Len(DriftTape)) + 1]

Max(a, b) == IF a >= b THEN a ELSE b

\* round(x, 2) on a value of which `cent` model units make 0.01: the
\* nearest multiple of cent, a tie going to the even one
Round2(x, cent) ==
  LET lo == (x \div cent) * cent
      r  == x % cent
  IN  IF 2 * r < cent THEN lo
      ELSE IF 2 * r > cent THEN lo + cent
      ELSE IF (lo \div cent) % 2 = 0 THEN lo ELSE lo + cent

VARIABLES
  speed, accel, braking, hazard,  \* VehicleSensors fields, per vehicle
  q,                              \* OpticalChannel.q: pending signals, oldest first
  nextId,                         \* number the next transmitted signal gets
  recvCount,                      \* signal id -> number of receive calls that returned it
  pc,                             \* per thread: the line it is about to execute
  tick, car,                      \* main: loop index i, position in the convoy
  loc,                            \* per thread: locals of the broadcast() it is in
  ebCalls,                        \* emergency_brake() invocations so far
  seed,                           \* seed of the random module's generator
  event,                          \* what the step just taken did on the channel
  codec                           \* a run of the codec on its own: input, signal, result

programVars == <<speed, accel, braking, hazard, q, nextId, recvCount, pc,
                 tick, car, loc, ebCalls, seed, event>>
vars == <<programVars, codec>>

sensorVars == <<speed, accel, braking, hazard>>
mainVars == <<tick, car>>

\* the process runs: main has not returned yet
alive == pc["main"] # "done"

\* ------------------------------------------------------------- messages
\* VehicleSensors.read_data
read_data(v) ==
  [from |-> v, timestamp |-> "now", speed_mps |-> Round2(speed[v], 100),
   accel_mps2 |-> Round2(accel[v], 10), braking |-> braking[v], hazard |-> hazard[v],
   type |-> "STATUS"]

\* a broadcast that keeps the status fields in the emergency message
EmergencyMsgWithStatus(v) == [read_data(v) EXCEPT !["type"] = "EMERGENCY_BRAKE"]

\* Vehicle.broadcast, line 126
EmergencyMsg(v) == [from |-> v, type |-> "EMERGENCY_BRAKE"]

NoLocals == [car |-> "none", brake |-> FALSE, newSpeed |-> 0, msg |-> <<>>]
NoEvent == [op |-> "none"]

\* a dict whose key `old` was garbled into `new` by flipped bits
RenameKey(d, old, new) ==
  [k \in (DOMAIN d \ {old}) \cup {new} |-> IF k = new THEN d[old] ELSE d[k]]

Dict(d) == [kind |-> "dict", val |-> d]

\* What decode_message followed by ast.literal_eval can make of a signal
\* that encode_message built for `m`: every sample is an independent draw,
\* so besides the text of m itself any text of the same length can come out.
\* The classes the listener tells apart are kept.
Faithful(m) == Dict(m)
Garbled(m) ==
  { [kind |-> "unparsable"],
    [kind |-> "nondict"],
    Dict(RenameKey(m, "from", "frnm")),
    Dict(RenameKey(m, "type", "typd")),
    Dict([m EXCEPT !["type"] = "STATUR"]) }
    \cup (IF "speed_mps" \in DOMAIN m
          THEN {Dict(RenameKey(m, "speed_mps", "speed_mpc"))} ELSE {})

\* dict.get(k): None when the key is missing
Get(d, k) == IF k \in DOMAIN d THEN d[k] ELSE "None"

\* process_message without its call of emergency_brake
process_message_no_call(d) ==
  IF Get(d, "type") = "STATUS"
  THEN IF {"from", "speed_mps"} \subseteq DOMAIN d
       THEN [printed |-> "STATUS", calls |-> 0, raised |-> "none", dispatched |-> TRUE]
       ELSE [printed |-> "", calls |-> 0, raised |-> "KeyError", dispatched |-> TRUE]
  ELSE IF Get(d, "type") = "EMERGENCY_BRAKE"
  THEN IF "from" \in DOMAIN d
       THEN [printed |-> "EMERGENCY_BRAKE", calls |-> 0, raised |-> "none", dispatched |-> TRUE]
       ELSE [printed |-> "", calls |-> 0, raised |-> "KeyError", dispatched |-> TRUE]
  ELSE [printed |-> "", calls |-> 0, raised |-> "none", dispatched |-> TRUE]

\* process_message braking on every message that names its sender
process_message_brake_on_any(d) ==
  IF "from" \in DOMAIN d
  THEN [printed |-> "EMERGENCY_BRAKE", calls |-> 1, raised |-> "none", dispatched |-> TRUE]
  ELSE [printed |-> "", calls |-> 0, raised |-> "KeyError", dispatched |-> TRUE]

\* VehicleReceiver.process_message: what one call does.  An f-string that
\* subscripts a missing key raises KeyError before anything is printed and,
\* on the EMERGENCY_BRAKE branch, before emergency_brake() is called.
process_message(d) ==
  IF Get(d, "type") = "STATUS"
  THEN IF {"from", "speed_mps"} \subseteq DOMAIN d
       THEN [printed |-> "STATUS", calls |-> 0, raised |-> "none", dispatched |-> TRUE]
       ELSE [printed |-> "", calls |-> 0, raised |-> "KeyError", dispatched |-> TRUE]
  ELSE IF Get(d, "type") = "EMERGENCY_BRAKE"
  THEN IF "from" \in DOMAIN d
       THEN [printed |-> "EMERGENCY_BRAKE", calls |-> 1, raised |-> "none", dispatched |-> TRUE]
       ELSE [printed |-> "", calls |-> 0, raised |-> "KeyError", dispatched |-> TRUE]
  ELSE [printed |-> "", calls |-> 0, raised |-> "none", dispatched |-> TRUE]

\* VehicleReceiver.listen, lines 93-98, on the value of lines 92 and 96: an
\* empty text (line 93) and a non-dict value (line 97) are skipped, a text
\* that literal_eval rejects raises
Handle(val) ==
  IF val.kind = "dict" THEN process_message(val.val)
  ELSE IF val.kind = "unparsable"
  THEN [printed |-> "", calls |-> 0, raised |-> "ValueError", dispatched |-> FALSE]
  ELSE [printed |-> "", calls |-> 0, raised |-> "none", dispatched |-> FALSE]

\* an except clause that names the parse errors only / KeyError only
SwallowedParseOnly(exc) == exc # "KeyError"
SwallowedKeyOnly(exc) == exc = "KeyError"

\* VehicleReceiver.listen, lines 99-100: the bare except catches whatever
\* lines 95-98 raise
Swallowed(exc) == TRUE

\* line 25 without max(0, ...)
UpdatedSpeedNoClamp(s, a) == s + a

\* VehicleSensors.update, line 25
UpdatedSpeed(s, a) == Max(0, s + a)

\* a channel that holds one signal: a new one replaces what is pending
PutReplace(queue, sig) == <<sig>>

\* OpticalChannel.transmit: queue.Queue() is unbounded, put appends
Put(queue, sig) == Append(queue, sig)

\* a receive that leaves the signal in the queue / that needs two pending /
\* that hands out the newest signal
LeftPeek(queue) == queue
GotNewest(queue) == queue[Len(queue)]
AvailableOffByOne(queue) == Len(queue) > 1

\* OpticalChannel.receive, line 74: queue.Queue.get hands out the oldest
\* pending signal and removes it, under the queue's own lock, or times out
\* on an empty queue
Available(queue) == queue # <<>>
Got(queue) == Head(queue)
Left(queue) == Tail(queue)

\* ------------------------------------------------------------- the codec
\* the printable ASCII characters: code points 32 to 95 and 97 to 126
AsciiLow == " !\"#$%&'()*+,-./0123456789:;<=>?@ABCDEFGHIJKLMNOPQRSTUVWXYZ[\\]^_"
AsciiHigh == "abcdefghijklmnopqrstuvwxyz{|}~"
Printable(n) == n \in (32..95) \cup (97..126)

\* ord(c) and chr(n) on these characters
Ord(c) ==
  IF \E i \in 1..Len(AsciiLow) : SubSeq(AsciiLow, i, i) = c
  THEN 31 + CHOOSE i \in 1..Len(AsciiLow) : SubSeq(AsciiLow, i, i) = c
  ELSE 96 + CHOOSE i \in 1..Len(AsciiHigh) : SubSeq(AsciiHigh, i, i) = c
Chr(n) ==
  IF n < 96 THEN SubSeq(AsciiLow, n - 31, n - 31) ELSE SubSeq(AsciiHigh, n - 96, n - 96)

\* a text as the sequence of its code points, and back
Codes(s) == [i \in 1..Len(s) |-> Ord(SubSeq(s, i, i))]
RECURSIVE Text(_)
Text(cs) == IF cs = <<>> THEN "" ELSE Chr(Head(cs)) \o Text(Tail(cs))

\* str(msg), line 42, of a dict whose values are strings and booleans: the
\* items in insertion order (that of read_data and of line 126), keys and
\* string values in single quotes, the boolean of "braking" as True or False
KeyOrder == <<"from", "braking", "hazard", "type">>
Quoted(x) == "'" \o x \o "'"
Repr(d, k) == IF k = "braking" THEN (IF d[k] THEN "True" ELSE "False") ELSE Quoted(d[k])
RECURSIVE Items(_, _)
Items(d, ks) ==
  IF ks = <<>> THEN ""
  ELSE IF Head(ks) \notin DOMAIN d THEN Items(d, Tail(ks))
  ELSE LET rest == Items(d, Tail(ks))
       IN  Quoted(Head(ks)) \o ": " \o Repr(d, Head(ks)) \o
             (IF rest = "" THEN "" ELSE ", " \o rest)
Str(d) == "{" \o Items(d, KeyOrder) \o "}"

\* format(n, "08b"), line 42: the binary digits of n, most significant
\* first, padded with zeros to eight at least
RECURSIVE Bin(_)
Bin(n) == IF n < 2 THEN <<n>> ELSE Append(Bin(n \div 2), n % 2)
RECURSIVE ZeroFill(_, _)
ZeroFill(bs, width) == IF Len(bs) >= width THEN bs ELSE ZeroFill(<<0>> \o bs, width)
Format08b(n) == ZeroFill(Bin(n), 8)

\* line 42: the bits of a text
RECURSIVE BitsOf(_)
BitsOf(cs) == IF cs = <<>> THEN <<>> ELSE Format08b(Head(cs)) \o BitsOf(Tail(cs))

\* random.gauss, lines 45-49, in tenths: the sum drawn for a 1 bit has
\* standard deviation 3.2 and the one for a 0 bit 1.0, so either can fall on
\* either side of the threshold of line 55.  A draw is lucky when it falls
\* on the side of its bit; the tapes hold lucky draws, the second nearest to
\* the threshold from either side.
HighTape == <<95, -16, 16, -30>>
LowTape == <<0, 15, -15, 3>>
Lucky == [kind |-> "lucky"]
Noises(n) == {Lucky} \cup {[kind |-> "unlucky", at |-> k] : k \in 1..n}
Sample(b, i, noise) ==
  LET unlucky == noise.kind = "unlucky" /\ noise.at = i
  IN  IF (b = 1) # unlucky THEN HighTape[(i % 4) + 1] ELSE LowTape[(i % 4) + 1]

\* encode_message, lines 41-50, on the text str(msg)
encode_message(cs, noise) ==
  LET bits == BitsOf(cs) IN [i \in 1..Len(bits) |-> Sample(bits[i], i, noise)]

Abs(x) == IF x < 0 THEN -x ELSE x

\* a decoder that forgets abs()
BitOfSigned(val) == IF val > 15 THEN 1 ELSE 0

\* decode_message, line 55
BitOf(val) == IF Abs(val) > 15 THEN 1 ELSE 0

\* a decoder that turns a short last group into a character too
WholeOrShort(c) == TRUE

\* decode_message, line 58: `if len(c) == 8`
Whole(c) == Len(c) = 8

\* int(c, 2), line 58
RECURSIVE Int2(_)
Int2(c) == IF c = <<>> THEN 0 ELSE 2 * Int2(SubSeq(c, 1, Len(c) - 1)) + c[Len(c)]

\* decode_message, lines 52-60: the groups of line 56 start at every eighth
\* bit and the last one may be short; chr(int(c, 2)) of a group of one to
\* eight binary digits cannot raise, so line 60 is never reached
decode_message(signal) ==
  LET bits == [i \in 1..Len(signal) |-> BitOf(signal[i])]
      n == Len(bits)
      chars == [j \in 1..((n + 7) \div 8) |->
                  SubSeq(bits, 8 * (j - 1) + 1, IF 8 * j < n THEN 8 * j ELSE n)]
      kept == SelectSeq(chars, Whole)
  IN  [j \in 1..Len(kept) |-> Int2(kept[j])]

\* ast.literal_eval, line 96, with the isinstance test of line 97, on the
\* displays str() gives for the dicts above: a dict of quoted keys with
\* quoted or True/False values, items separated by ", ", or one such value
\* alone.  Any other text counts as unparsable here.
At(s, i, n) == IF i >= 1 /\ i + n - 1 <= Len(s) THEN SubSeq(s, i, i + n - 1) ELSE ""
NoParse == [ok |-> FALSE, val |-> "", next |-> 0]
StrLit(s, i) ==
  LET close == {j \in (i + 1)..Len(s) : At(s, j, 1) = "'"}
  IN  IF At(s, i, 1) # "'" \/ close = {} THEN NoParse
      ELSE LET j == CHOOSE k \in close : \A l \in close : k <= l
           IN  IF \E k \in (i + 1)..(j - 1) : At(s, k, 1) = "\\" THEN NoParse
               ELSE [ok |-> TRUE, val |-> At(s, i + 1, j - i - 1), next |-> j + 1]
Literal(s, i) ==
  IF At(s, i, 4) = "True" THEN [ok |-> TRUE, val |-> TRUE, next |-> i + 4]
  ELSE IF At(s, i, 5) = "False" THEN [ok |-> TRUE, val |-> FALSE, next |-> i + 5]
  ELSE StrLit(s, i)
RECURSIVE DictItems(_, _, _)
DictItems(s, i, acc) ==
  LET key == StrLit(s, i)
      v == Literal(s, key.next + 2)
      got == (key.val :> v.val) @@ acc
  IN  IF ~key.ok \/ At(s, key.next, 2) # ": " \/ ~v.ok THEN [kind |-> "unparsable"]
      ELSE IF At(s, v.next, 1) = "}" /\ v.next = Len(s) THEN Dict(got)
      ELSE IF At(s, v.next, 2) = ", " THEN DictItems(s, v.next + 2, got)
      ELSE [kind |-> "unparsable"]
literal_eval(cs) ==
  IF \E i \in 1..Len(cs) : ~Printable(cs[i]) THEN [kind |-> "unparsable"]
  ELSE LET s == Text(cs)
           v == Literal(s, 1)
       IN  IF s = "{}" THEN Dict(<<>>)
           ELSE IF At(s, 1, 1) = "{" THEN DictItems(s, 2, <<>>)
           ELSE IF v.ok /\ v.next = Len(s) + 1 THEN [kind |-> "nondict"]
           ELSE [kind |-> "unparsable"]

\* the messages the codec is run on: the EMERGENCY_BRAKE dict of line 126
\* and the string and boolean items of read_data's dict
CodecMessages ==
  {EmergencyMsg(v) : v \in Vehicles} \cup
  {[from |-> v, braking |-> b, hazard |-> "", type |-> "STATUS"] :
     v \in Vehicles, b \in BOOLEAN}

\* ------------------------------------------------------------------ Init
NoMsg == [type |-> "None"]
NoCodec ==
  [stage |-> "off", msg |-> NoMsg, text |-> <<>>, noise |-> Lucky,
   signal |-> <<>>, decoded |-> <<>>, parsed |-> [kind |-> "none"]]

Init ==
  /\ codec = NoCodec
  /\ speed = [v \in Vehicles |-> InitSpeed]
  /\ accel = [v \in Vehicles |-> 0]
  /\ braking = [v \in Vehicles |-> FALSE]
  /\ hazard = [v \in Vehicles |-> ""]
  /\ q = <<>>
  /\ nextId = 1
  /\ recvCount = <<>>
  /\ pc = [t \in Threads |-> IF t = "main" THEN "start" ELSE "new"]
  /\ tick = 0
  /\ car = 1
  /\ loc = [t \in Threads |-> NoLocals]
  /\ ebCalls = 0
  /\ seed \in Seeds
  /\ event = NoEvent

\* ------------------------------------------------------------ main thread
\* lines 145-147: carX.start() starts the listener thread of the next car
Start ==
  /\ pc["main"] = "start"
  /\ pc' = [pc EXCEPT ![Convoy[car]] = "receive",
                      !["main"] = IF car < Len(Convoy) THEN "start" ELSE "loop"]
  /\ car' = IF car < Len(Convoy) THEN car + 1 ELSE 1
  /\ event' = NoEvent
  /\ UNCHANGED <<codec, sensorVars, q, nextId, recvCount, tick, loc, ebCalls, seed>>

\* signals pending or being reacted to
Backlog == Len(q) + Cardinality({v \in Vehicles : pc[v] \notin {"new", "receive"}})

\* lines 151-158: the next broadcast call of the loop body; CarA brakes at i == 2
MainCall ==
  /\ pc["main"] = "loop"
  /\ tick < NumTicks
  /\ Backlog < MaxBacklog
  /\ loc' = [loc EXCEPT !["main"] =
               [NoLocals EXCEPT !.car = Convoy[car],
                                !.brake = (car = 1 /\ tick = BrakeTick)]]
  /\ pc' = [pc EXCEPT !["main"] = "update_accel"]
  /\ event' = NoEvent
  /\ UNCHANGED <<codec, sensorVars, q, nextId, recvCount, mainVars, ebCalls, seed>>

\* line 159, and back to the head of the loop
Sleep ==
  /\ pc["main"] = "sleep"
  /\ tick' = tick + 1
  /\ car' = 1
  /\ pc' = [pc EXCEPT !["main"] = "loop"]
  /\ event' = NoEvent
  /\ UNCHANGED <<codec, sensorVars, q, nextId, recvCount, loc, ebCalls, seed>>

\* line 161: the loop is over, main returns and the interpreter exits,
\* which ends the daemon listener threads (line 120) wherever they are
Exit ==
  /\ pc["main"] = "loop"
  /\ tick = NumTicks
  /\ pc' = [pc EXCEPT !["main"] = "done"]
  /\ event' = NoEvent
  /\ UNCHANGED <<codec, sensorVars, q, nextId, recvCount, mainVars, loc, ebCalls, seed>>

\* where broadcast() returns to
AfterBroadcast(t) ==
  IF t = "main" THEN (IF car < Len(Convoy) THEN "loop" ELSE "sleep") ELSE "receive"

\* ------------------------------------------- Vehicle.broadcast, any thread
\* VehicleSensors.update, lines 19-20 / 23
UpdateAccel(t) ==
  /\ alive
  /\ pc[t] = "update_accel"
  /\ accel' = [accel EXCEPT ![loc[t].car] =
                 IF loc[t].brake THEN BrakeAccel
                 ELSE Uniform(seed, Len(Convoy) * tick + car)]
  /\ pc' = [pc EXCEPT ![t] = "update_braking"]
  /\ event' = NoEvent
  /\ UNCHANGED <<codec, speed, braking, hazard, q, nextId, recvCount, mainVars,
                 loc, ebCalls, seed>>

\* VehicleSensors.update, lines 21 / 24
UpdateBraking(t) ==
  /\ alive
  /\ pc[t] = "update_braking"
  /\ braking' = [braking EXCEPT ![loc[t].car] = loc[t].brake]
  /\ pc' = [pc EXCEPT ![t] = "update_speed"]
  /\ event' = NoEvent
  /\ UNCHANGED <<codec, speed, accel, hazard, q, nextId, recvCount, mainVars,
                 loc, ebCalls, seed>>

\* VehicleSensors.update, line 25, right-hand side: reads self.speed and
\* self.accel
UpdateSpeed(t) ==
  /\ alive
  /\ pc[t] = "update_speed"
  /\ loc' = [loc EXCEPT ![t].newSpeed =
               UpdatedSpeed(speed[loc[t].car], accel[loc[t].car])]
  /\ pc' = [pc EXCEPT ![t] = "update_store"]
  /\ event' = NoEvent
  /\ UNCHANGED <<codec, sensorVars, q, nextId, recvCount, mainVars, ebCalls, seed>>

\* VehicleSensors.update, line 25, the store to self.speed; update() returns
UpdateStore(t) ==
  /\ alive
  /\ pc[t] = "update_store"
  /\ speed' = [speed EXCEPT ![loc[t].car] = loc[t].newSpeed]
  /\ loc' = [loc EXCEPT ![t].newSpeed = 0]
  /\ pc' = [pc EXCEPT ![t] = "read_data"]
  /\ event' = NoEvent
  /\ UNCHANGED <<codec, accel, braking, hazard, q, nextId, recvCount, mainVars,
                 ebCalls, seed>>

\* Vehicle.broadcast, lines 124-126
ReadData(t) ==
  /\ alive
  /\ pc[t] = "read_data"
  /\ loc' = [loc EXCEPT ![t].msg =
               IF loc[t].brake THEN EmergencyMsg(loc[t].car) ELSE read_data(loc[t].car)]
  /\ pc' = [pc EXCEPT ![t] = "transmit"]
  /\ event' = NoEvent
  /\ UNCHANGED <<codec, sensorVars, q, nextId, recvCount, mainVars, ebCalls, seed>>

\* Vehicle.broadcast, lines 127-128: encode_message, then
\* OpticalChannel.transmit; broadcast returns
Transmit(t) ==
  /\ alive
  /\ pc[t] = "transmit"
  /\ q' = Put(q, [id |-> nextId, msg |-> loc[t].msg])
  /\ nextId' = nextId + 1
  /\ recvCount' = Append(recvCount, 0)
  /\ event' = [op |-> "transmit", by |-> t, sig |-> [id |-> nextId, msg |-> loc[t].msg]]
  /\ loc' = [loc EXCEPT ![t] = NoLocals]
  /\ pc' = [pc EXCEPT ![t] = AfterBroadcast(t)]
  /\ car' = IF t = "main" /\ car < Len(Convoy) THEN car + 1 ELSE car
  /\ UNCHANGED <<codec, sensorVars, tick, ebCalls, seed>>

\* ------------------------------------------------- VehicleReceiver.listen
\* the values lines 92 and 96 can give for a signal
Decodings(sig) ==
  Garbled(sig.msg) \cup
    (IF sig.msg.type = "EMERGENCY_BRAKE" /\ ebCalls >= MaxReactions
     THEN {} ELSE {Faithful(sig.msg)})

\* a receiver wired to the leader's vehicle instead of its own
LeaderVehicle(v) == Convoy[1]

\* VehicleReceiver.vehicle: Vehicle.__init__ hands each receiver its own
\* vehicle (lines 85, 117), the one line 107 calls emergency_brake() on
OwnVehicle(v) == v

\* where one turn of the listen loop leaves the listener: in
\* broadcast(brake=True) of its own vehicle when process_message called
\* emergency_brake (lines 107, 132), ended by an exception nothing caught,
\* else back at line 89
AfterTurn(done) ==
  IF done.raised # "none" /\ ~Swallowed(done.raised) THEN "crashed"
  ELSE IF done.calls > 0 THEN "update_accel"
  ELSE "receive"

\* One turn of the listen loop on a non-empty queue, lines 89-100 with
\* process_message: receive, then decode_message, ast.literal_eval and the
\* dispatch, which work on the listener's own copy of the signal.
Receive(v) ==
  /\ alive
  /\ pc[v] = "receive"
  /\ Available(q)
  /\ q' = Left(q)
  /\ recvCount' = [recvCount EXCEPT ![Got(q).id] = @ + 1]
  /\ \E val \in Decodings(Got(q)) :
       LET done == Handle(val) IN
       /\ event' = [op |-> "receive", sig |-> Got(q), val |-> val,
                    dispatched |-> done.dispatched, printed |-> done.printed,
                    calls |-> done.calls]
       /\ ebCalls' = ebCalls + done.calls
       /\ pc' = [pc EXCEPT ![v] = AfterTurn(done)]
       /\ loc' = [loc EXCEPT ![v] = IF done.calls > 0
                                    THEN [NoLocals EXCEPT !.car = OwnVehicle(v),
                                                          !.brake = TRUE]
                                    ELSE NoLocals]
  /\ UNCHANGED <<codec, sensorVars, nextId, mainVars, seed>>

\* lines 89-91 on an empty queue: get() times out, receive returns None and
\* the loop goes round
ReceiveNone(v) ==
  /\ alive
  /\ pc[v] = "receive"
  /\ ~Available(q)
  /\ UNCHANGED vars

Broadcast(t) ==
  \/ UpdateAccel(t)
  \/ UpdateBraking(t)
  \/ UpdateSpeed(t)
  \/ UpdateStore(t)
  \/ ReadData(t)
  \/ Transmit(t)

Listen(v) ==
  \/ Receive(v)
  \/ ReceiveNone(v)

Main == Start \/ MainCall \/ Sleep \/ Exit

Next ==
  \/ Main
  \/ \E t \in Threads : Broadcast(t)
  \/ \E v \in Vehicles : Listen(v)

Spec == Init /\ [][Next]_vars

\* Each listener thread that can take a step eventually takes one.  Nothing
\* is asked of main: the demo may stop calling at any point.
FairInit == Init /\ seed = 0
FairSpec ==
  /\ FairInit
  /\ [][Next]_vars
  /\ \A v \in Vehicles : WF_vars(Listen(v) \/ Broadcast(v))

\* The same program with the vehicles already slowed down: 0.04 m/s is what
\* is left of 25 m/s after enough updates, so the clamp of line 25 is one
\* braking update away.
SlowInit ==
  /\ codec = NoCodec
  /\ \E s \in {InitSpeed, 400} : speed = [v \in Vehicles |-> s]
  /\ accel = [v \in Vehicles |-> 0]
  /\ braking = [v \in Vehicles |-> FALSE]
  /\ hazard = [v \in Vehicles |-> ""]
  /\ q = <<>>
  /\ nextId = 1
  /\ recvCount = <<>>
  /\ pc = [t \in Threads |-> IF t = "main" THEN "start" ELSE "new"]
  /\ tick = 0
  /\ car = 1
  /\ loc = [t \in Threads |-> NoLocals]
  /\ ebCalls = 0
  /\ seed \in Seeds
  /\ event = NoEvent
SlowSpec == SlowInit /\ [][Next]_vars


\* ------------------------------------------------- the codec on its own
\* encode_message and decode_message are pure functions of their argument
\* and of the draws: a run takes a message through str, encode_message,
\* decode_message and literal_eval, or hands decode_message a signal of
\* any length.
RawTexts == {<<>>, <<0>>, <<255>>, <<65, 256>>}
RECURSIVE SignalsOf(_)
SignalsOf(n) ==
  IF n = 0 THEN {<<>>}
  ELSE LET shorter == SignalsOf(n - 1)
       IN  shorter \cup {Append(sg, x) : sg \in {g \in shorter : Len(g) = n - 1},
                                         x \in {-16, 15}}
CutSignals ==
  LET whole == encode_message(Codes(Str(EmergencyMsg(Convoy[1]))), Lucky)
  IN  {SubSeq(whole, 1, n) : n \in 0..Len(whole)}

CodecInputs ==
  {[NoCodec EXCEPT !.stage = "text", !.msg = m, !.text = Codes(Str(m))] :
     m \in CodecMessages}
  \cup {[NoCodec EXCEPT !.stage = "text", !.text = t] : t \in RawTexts}
  \cup {[NoCodec EXCEPT !.stage = "signal", !.signal = sg] :
          sg \in SignalsOf(MaxSamples) \cup CutSignals}

CodecInit ==
  /\ codec \in CodecInputs
  /\ speed = [v \in Vehicles |-> InitSpeed]
  /\ accel = [v \in Vehicles |-> 0]
  /\ braking = [v \in Vehicles |-> FALSE]
  /\ hazard = [v \in Vehicles |-> ""]
  /\ q = <<>>
  /\ nextId = 1
  /\ recvCount = <<>>
  /\ pc = [t \in Threads |-> IF t = "main" THEN "start" ELSE "new"]
  /\ tick = 0
  /\ car = 1
  /\ loc = [t \in Threads |-> NoLocals]
  /\ ebCalls = 0
  /\ seed = 0
  /\ event = NoEvent

\* line 127: encode_message(msg)
Encode ==
  /\ codec.stage = "text"
  /\ \E noise \in Noises(8 * Len(codec.text)) :
       codec' = [codec EXCEPT !.stage = "signal", !.noise = noise,
                              !.signal = encode_message(codec.text, noise)]
  /\ UNCHANGED programVars

\* line 92: decode_message(signal)
Decode ==
  /\ codec.stage = "signal"
  /\ codec' = [codec EXCEPT !.stage = "decoded",
                            !.decoded = decode_message(codec.signal)]
  /\ UNCHANGED programVars

\* lines 93-97: an empty text is skipped, any other is evaluated
Eval ==
  /\ codec.stage = "decoded"
  /\ codec' = [codec EXCEPT !.stage = "parsed",
                            !.parsed = IF codec.decoded = <<>> THEN [kind |-> "empty"]
                                       ELSE literal_eval(codec.decoded)]
  /\ UNCHANGED programVars

CodecNext == Encode \/ Decode \/ Eval
CodecSpec == CodecInit /\ [][CodecNext]_vars

\* ================================================================ claims
Started == {v \in Vehicles : pc[v] # "new"}
Pending(id) == \E n \in 1..Len(q) : q[n].id = id
Heard == event.op = "receive"
HeardDict == Heard /\ event.val.kind = "dict"
HeardType == IF HeardDict THEN Get(event.val.val, "type") ELSE "None"
\* the step is a turn of some listen loop on a signal it received
Turn == event' # event /\ Heard'
\* a listener is inside the broadcast(brake=True) of its reaction
Reacting(v) == pc[v] \notin {"new", "receive", "crashed"}

\* C1: every transmitted signal is returned by at most one receive call,
\* whichever listeners call receive, and is pending exactly until then.
C1_NonFanOut ==
  \A id \in DOMAIN recvCount :
    /\ recvCount[id] <= 1
    /\ Pending(id) <=> recvCount[id] = 0

\* a signal was handed out once while all three listeners were polling
C1_Witness ==
  /\ Heard
  /\ recvCount[event.sig.id] = 1
  /\ \A v \in Vehicles : pc[v] = "receive"

\* C2 as stated: a listener that receives a faithfully decoded
\* EMERGENCY_BRAKE message calls its own emergency_brake(), and a transmit of
\* an EMERGENCY_BRAKE signal from that vehicle follows.
HeardEmergency ==
  Heard /\ \E s \in Vehicles : event.val = Dict(EmergencyMsg(s))
EntersReaction(v) ==
  /\ pc[v] = "update_accel"
  /\ loc[v] = [NoLocals EXCEPT !.car = v, !.brake = TRUE]
Announced(v) ==
  /\ event.op = "transmit"
  /\ event.by = v
  /\ event.sig.msg = EmergencyMsg(v)
  /\ q # <<>>
  /\ q[Len(q)] = event.sig
C2_Invokes ==
  (Turn /\ HeardEmergency') =>
    /\ event'.calls = 1
    /\ \E v \in Vehicles :
         pc[v] = "receive" /\ pc' = [pc EXCEPT ![v] = "update_accel"] /\ EntersReaction(v)'
C2_Original ==
  /\ [][C2_Invokes]_vars
  /\ \A v \in Vehicles : EntersReaction(v) ~> Announced(v)

\* C2 as amended: the transmit follows unless main returns first, which
\* ends the process and the daemon listener with it.
C2_Amended ==
  /\ [][C2_Invokes]_vars
  /\ \A v \in Vehicles : EntersReaction(v) ~> (Announced(v) \/ ~alive)

\* a listener other than the braking leader's has re-announced the emergency
C2_Witness == \E v \in Vehicles \ {Convoy[1]} : Announced(v)

\* C3: whatever a received signal decodes to, the listen loop neither ends
\* nor blocks: a turn that causes no reaction leaves every listener at
\* receive, a turn that causes one puts the receiver into broadcast, whose
\* steps never wait, and it comes back to receive.
C3_NeverEnds == \A v \in Vehicles : pc[v] # "crashed"
C3_NeverBlocks ==
  \A v \in Vehicles : (alive /\ pc[v] # "new") => ENABLED (Listen(v) \/ Broadcast(v))
C3_Turn ==
  Turn =>
    IF event'.calls = 0
    THEN pc' = pc
    ELSE \E v \in Vehicles :
           pc[v] = "receive" /\ pc' = [pc EXCEPT ![v] = "update_accel"]
InSensors(t, v) ==
  /\ loc[t].car = v
  /\ pc[t] \in {"update_braking", "update_speed", "update_store", "read_data"}
C4_NoRace ==
  \A v \in Vehicles : Cardinality({t \in Threads : InSensors(t, v)}) <= 1

\* C5: no vehicle's speed is ever negative, nor is a speed about to be stored.
C5_SpeedClamp ==
  /\ \A v \in Vehicles : speed[v] >= 0
  /\ \A t \in Threads : loc[t].newSpeed >= 0

\* update() has just stored a speed that line 25 clamped to zero
C5_Witness ==
  \E t \in Threads :
    /\ pc[t] = "read_data"
    /\ speed[loc[t].car] = 0
    /\ accel[loc[t].car] < 0

\* C6: when update(brake=True) returns the vehicle has braking == True and
\* accel == -8.0, when update(brake=False) returns it has braking == False.
C6_Step(t) ==
  (pc[t] = "update_store" /\ pc'[t] = "read_data") =>
    IF loc[t].brake
    THEN braking'[loc[t].car] = TRUE /\ accel'[loc[t].car] = BrakeAccel
    ELSE braking'[loc[t].car] = FALSE
C6_BrakingState == [][\A t \in Threads : C6_Step(t)]_vars

\* C7: while the process runs and the listeners keep taking their steps, the
\* oldest pending signal is eventually handed out.  Signals are numbered in
\* the order of transmit and leave from the head only, so the oldest one's
\* number changes parity exactly when it is handed out, and every pending
\* signal becomes the oldest and is handed out in its turn.
C7_HeadOnly ==
  \/ q' = q
  \/ q # <<>> /\ q' = Tail(q)
  \/ q' = Append(q, [id |-> nextId, msg |-> q'[Len(q')].msg]) /\ nextId' = nextId + 1
OldestIs(r) == q # <<>> /\ Head(q).id % 2 = r
C7_EventualDelivery ==
  /\ [][C7_HeadOnly]_vars
  /\ \A r \in 0..1 : OldestIs(r) ~> (~OldestIs(r) \/ ~alive)

\* the signals sent so far have all been handed out
C7_Witness == Heard /\ q = <<>> /\ nextId > Len(Convoy)

\* C8: a decoded dict whose type is EMERGENCY_BRAKE makes process_message
\* call emergency_brake() exactly once, whatever other keys it has or lacks.
C8_DispatchEmergency ==
  (HeardDict /\ HeardType = "EMERGENCY_BRAKE") => event.calls = 1

\* C9: dispatching a message whose type is STATUS, absent or anything but
\* EMERGENCY_BRAKE changes no vehicle's state, transmits nothing and starts
\* no reaction.
C9_Step ==
  (Turn /\ HeardDict' /\ HeardType' # "EMERGENCY_BRAKE") =>
    /\ UNCHANGED <<sensorVars, nextId, pc, loc, ebCalls>>
    /\ q' = Tail(q)
    /\ event'.calls = 0
C9_OnlyEmergencyReacts == [][C9_Step]_vars

\* a STATUS message was dispatched and reported
C9_Witness == HeardDict /\ HeardType = "STATUS" /\ event.printed = "STATUS"

\* C10: a signal that decodes to text literal_eval rejects, or to a value
\* that is not a dict, is dropped: no call of process_message or
\* emergency_brake, no vehicle state change, no transmit, and every thread
\* goes on where it was.
C10_Step ==
  (Turn /\ event'.val.kind # "dict") =>
    /\ UNCHANGED <<sensorVars, nextId, pc, loc, ebCalls>>
    /\ q' = Tail(q)
    /\ ~event'.dispatched
    /\ event'.calls = 0
    /\ event'.printed = ""
C10_FailureAbsorbed == [][C10_Step]_vars

\* a value that is no dict was dropped
C10_Witness == Heard /\ event.val.kind = "nondict" /\ ~event.dispatched

\* C11: the sensor state of a vehicle V changes only in a step of
\* V.sensors.update() taken inside V.broadcast(), by main or by V's own
\* listener in emergency_brake(); transmit, receive, dispatch and every
\* operation on another vehicle leave it alone.
SensorsOf(v) == <<speed[v], accel[v], braking[v], hazard[v]>>
InUpdate(t, v) ==
  /\ loc[t].car = v
  /\ pc[t] \in {"update_accel", "update_braking", "update_store"}
C11_Step ==
  \A v \in Vehicles :
    SensorsOf(v)' # SensorsOf(v) =>
      \E t \in {"main", v} : InUpdate(t, v) /\ pc'[t] # pc[t] /\ q' = q
C11_Ownership == [][C11_Step]_vars

\* a listener has changed the state of its own vehicle, and of no other
C11_Witness ==
  \E v \in Vehicles \ {Convoy[1]} :
    /\ braking[v]
    /\ pc[v] = "update_speed"
    /\ pc["main"] \in {"loop", "sleep"}
    /\ \A w \in Vehicles \ {v, Convoy[1]} : ~braking[w]

\* C12: a listener prints exactly one line for every dict of type STATUS or
\* EMERGENCY_BRAKE it dispatches, and none for anything else it receives.
C12_OneEvent ==
  Heard =>
    IF HeardType \in {"STATUS", "EMERGENCY_BRAKE"}
    THEN event.printed = HeardType
    ELSE event.printed = ""

\* C13: when every draw is lucky (each sample of a 1 bit above 1.5 in
\* absolute value, each sample of a 0 bit at most 1.5) and every character
\* of the text is below 256, decode_message gives back the text that
\* encode_message was given, and evaluating it gives back a dict with the
\* type and the sender of the message.
AllLucky ==
  LET bits == BitsOf(codec.text)
  IN  /\ Len(codec.signal) = Len(bits)
      /\ \A i \in 1..Len(bits) : (bits[i] = 1) <=> (Abs(codec.signal[i]) > 15)
Encoded == codec.text # <<>> /\ codec.stage \in {"decoded", "parsed"}
C13_RoundTrip ==
  (Encoded /\ AllLucky /\ \A i \in 1..Len(codec.text) : codec.text[i] < 256) =>
    /\ codec.decoded = codec.text
    /\ (codec.stage = "parsed" /\ codec.msg # NoMsg) =>
         /\ codec.parsed.kind = "dict"
         /\ codec.parsed.val.type = codec.msg.type
         /\ codec.parsed.val.from = codec.msg.from

\* CarB's EMERGENCY_BRAKE message came back from lucky draws
C13_Witness ==
  /\ codec.stage = "parsed"
  /\ codec.msg = EmergencyMsg(Convoy[2])
  /\ AllLucky
  /\ codec.parsed = Dict(codec.msg)

\* C14: decode_message returns one character for each full group of eight
\* samples, the j-th built from samples 8j-7 to 8j, most significant bit
\* first; the samples after the last full group do not show in the result.
Weight(i) == IF i = 8 THEN 1 ELSE IF i = 7 THEN 2 ELSE IF i = 6 THEN 4
             ELSE IF i = 5 THEN 8 ELSE IF i = 4 THEN 16 ELSE IF i = 3 THEN 32
             ELSE IF i = 2 THEN 64 ELSE 128
High(x) == IF x > 15 \/ x < -15 THEN 1 ELSE 0
RECURSIVE GroupValue(_, _, _)
GroupValue(sg, j, i) ==
  IF i = 0 THEN 0
  ELSE High(sg[8 * (j - 1) + i]) * Weight(i) + GroupValue(sg, j, i - 1)
C14_Truncation ==
  codec.stage \in {"decoded", "parsed"} =>
    /\ Len(codec.decoded) = Len(codec.signal) \div 8
    /\ \A j \in 1..Len(codec.decoded) :
         codec.decoded[j] = GroupValue(codec.signal, j, 8)

\* a signal of two full groups and some samples more was decoded
C14_Witness ==
  /\ codec.stage = "decoded"
  /\ Len(codec.signal) > 16
  /\ Len(codec.signal) % 8 # 0
  /\ Len(codec.decoded) = 2

\* C15: a thread at transmit is never kept waiting, and its step appends its
\* signal as one new pending entry behind the signals already pending,
\* however many there are and whatever the listeners are doing.
C15_NeverWaits ==
  \A t \in Threads : (alive /\ pc[t] = "transmit") => ENABLED Transmit(t)
C15_Step ==
  \A t \in Threads :
    (pc[t] = "transmit" /\ pc'[t] # pc[t]) =>
      /\ Len(q') = Len(q) + 1
      /\ SubSeq(q', 1, Len(q)) = q
      /\ q'[Len(q')] = [id |-> nextId, msg |-> loc[t].msg]
C15_TransmitSucceeds == []C15_NeverWaits /\ [][C15_Step]_vars

\* a listener's reaction appended its signal behind one that was pending
C15_Witness ==
  /\ event.op = "transmit"
  /\ event.by \in Vehicles
  /\ Len(q) >= 2
  /\ q[Len(q)] = event.sig

\* C16: a call of broadcast goes once through update, read_data and
\* transmit, in this order; what it transmits is, with brake=True, a dict of
\* just the sender and the type EMERGENCY_BRAKE and, with brake=False, the
\* STATUS dict of the calling vehicle's state as it is when read after the
\* update.
InBroadcast ==
  {"update_accel", "update_braking", "update_speed", "update_store",
   "read_data", "transmit"}
Then(at) ==
  CASE at = "update_accel" -> "update_braking"
    [] at = "update_braking" -> "update_speed"
    [] at = "update_speed" -> "update_store"
    [] at = "update_store" -> "read_data"
    [] at = "read_data" -> "transmit"
    [] OTHER -> "returned"
Payload(t) ==
  LET v == loc[t].car IN
  IF loc[t].brake
  THEN [from |-> v, type |-> "EMERGENCY_BRAKE"]
  ELSE [from |-> v, timestamp |-> "now", speed_mps |-> Round2(speed[v], 100),
        accel_mps2 |-> Round2(accel[v], 10), braking |-> braking[v],
        hazard |-> hazard[v], type |-> "STATUS"]
C16_StepOf(t) ==
  pc'[t] # pc[t] =>
    /\ pc[t] \notin InBroadcast => pc'[t] \notin InBroadcast \ {"update_accel"}
    /\ pc[t] \in InBroadcast \ {"transmit"} => pc'[t] = Then(pc[t])
    /\ pc[t] = "read_data" => loc'[t].msg = Payload(t)
    /\ pc[t] = "transmit" =>
         /\ pc'[t] \notin InBroadcast
         /\ q' = Append(q, [id |-> nextId, msg |-> loc[t].msg])
    /\ pc[t] # "transmit" => Len(q') <= Len(q)
    /\ pc[t] \in {"read_data", "transmit"} => UNCHANGED sensorVars
C16_BroadcastPayload == [][\A t \in Threads : C16_StepOf(t)]_vars

\* main has transmitted CarC's status as its update left it
C16_Witness ==
  /\ event.op = "transmit"
  /\ event.by = "main"
  /\ event.sig.msg.type = "STATUS"
  /\ event.sig.msg.from = Convoy[3]
  /\ event.sig.msg.speed_mps = Round2(speed[Convoy[3]], 100)
  /\ event.sig.msg.speed_mps # Round2(InitSpeed, 100)

\* C17: when a vehicle transmits an EMERGENCY_BRAKE signal it has
\* braking == True and accel == -8.0.
C17_BrakingWhenAnnouncing ==
  (event.op = "transmit" /\ event.sig.msg.type = "EMERGENCY_BRAKE") =>
    /\ braking[event.sig.msg.from]
    /\ accel[event.sig.msg.from] = BrakeAccel

\* C18: the EMERGENCY_BRAKE signals pending or being reacted to by a
\* listener never become fewer except by a signal that fails to decode: a
\* faithfully decoded one puts its receiver into the reaction, and the
\* reaction ends by transmitting one.
IsEmergency(m) == m.type = "EMERGENCY_BRAKE"
EmergencyLoad ==
  Cardinality({n \in 1..Len(q) : IsEmergency(q[n].msg)})
    + Cardinality({v \in Vehicles : pc[v] \in InBroadcast})
EmergencyLost ==
  Turn /\ IsEmergency(event'.sig.msg) /\ event'.val # Dict(event'.sig.msg)
C18_Step ==
  /\ ~EmergencyLost => EmergencyLoad' >= EmergencyLoad
  /\ \A v \in Vehicles : pc[v] # pc'[v] => EmergencyLoad' = EmergencyLoad
C19_Oldest ==
  \A id \in DOMAIN recvCount :
    Pending(id) => \A k \in DOMAIN recvCount : recvCount[k] > 0 => k < id
C19_Ordered == \A n \in 1..(Len(q) - 1) : q[n].id < q[n + 1].id
C19_Step == Turn => q # <<>> /\ event'.sig = Head(q) /\ q' = Tail(q)
C19_Fifo == [](C19_Oldest /\ C19_Ordered) /\ [][C19_Step]_vars

\* the older of two pending signals was handed out, the younger is pending
C19_Witness == Heard /\ q # <<>> /\ event.sig.id < Head(q).id

\* C20: emergency_brake() of a vehicle is never invoked because of an
\* EMERGENCY_BRAKE message whose 'from' is that vehicle's own name.
C20_Step ==
  (Turn /\ event'.calls > 0) =>
    \A v \in Vehicles :
      (pc[v] = "receive" /\ pc'[v] # "receive") => event'.val.val.from # v
C20_NoSelfReaction == [][C20_Step]_vars

====
